---- MODULE Spec2Model ----
(***************************************************************************)
(* Model of vllm/entrypoints/grpc/grpc_server.py: the gRPC text generation *)
(* service (TextGenerationService) that validates wire parameters, prepares*)
(* prompts, drives the engine's snapshot streams and converts snapshots    *)
(* into GenerationResponse messages (Generate and GenerateStream).         *)
(*                                                                         *)
(* Conventions.  Python's None is the empty tuple and a present value x is *)
(* the one-element tuple <<x>>, so optional fields stay comparable.  Text  *)
(* is a sequence of one-character strings.  Floats are integers scaled by  *)
(* ten (temperature 1.0 is 10).  Time is counted in milliseconds.          *)
(***************************************************************************)
EXTENDS Integers, Sequences, FiniteSets, TLC

VARIABLES rpc, request, pc, status, sampling_params, deadline, clock,
          member, input_ids, max_is_token_limit, generators,
          aborts, responses, reply, first, last_output_length,
          last_token_count, time_limit_reached, emitted, call, returned

vars == <<rpc, request, pc, status, sampling_params, deadline, clock,
          member, input_ids, max_is_token_limit, generators,
          aborts, responses, reply, first, last_output_length,
          last_token_count, time_limit_reached, emitted, call, returned>>

----------------------------------------------------------------------------
(* Program constants and configuration *)

MAX_TOP_N_TOKENS == 10
MAX_STOP_SEQS == 6
MAX_STOP_SEQ_LENGTH == 240

\* args.max_new_tokens, the configured ceiling
max_max_new_tokens == 3
\* self.config.max_model_len, the context window
max_model_len == 4

\* Bounds of the model
\* stopping.time_limit_millis of the requests that set a time limit
TimeLimit == 2
MaxClock == TimeLimit + 1
MaxBatch == 2
MaxStepTokens == 2

None == << >>
Some(x) == <<x>>
IsNone(o) == o = << >>
Val(o) == o[1]

Min(a, b) == IF a <= b THEN a ELSE b
Max(a, b) == IF a >= b THEN a ELSE b

with_default(value, default) == IF value # 0 THEN value ELSE default

\* with_default(value, None) for a number
with_default_None(value) == IF value # 0 THEN Some(value) ELSE None

----------------------------------------------------------------------------
(* The tokenizer (external collaborator): a three-token vocabulary whose    *)
(* token texts have different lengths, so characters and tokens differ.    *)

Vocab == 1 .. 3

\* tokenizer.convert_ids_to_tokens, for one id
TokText(tid) ==
  CASE tid = 1 -> <<"a">>
    [] tid = 2 -> <<"b", "c">>
    [] OTHER   -> <<"d">>

RECURSIVE Detok(_)
Detok(ids) ==
  IF ids = << >> THEN << >> ELSE TokText(Head(ids)) \o Detok(Tail(ids))

RECURSIVE Encode(_)
Encode(text) ==
  IF text = << >> THEN << >>
  ELSE IF Head(text) = "a" THEN <<1>> \o Encode(Tail(text))
  ELSE IF Len(text) >= 2 /\ Head(text) = "b" /\ text[2] = "c"
       THEN <<2>> \o Encode(Tail(Tail(text)))
  ELSE <<3>> \o Encode(Tail(text))

\* tokenizer_group.encode_async(prompt, truncation=True, max_length=k)
encode_async(prompt, truncate_input_tokens) ==
  LET ids == Encode(prompt) IN
  IF IsNone(truncate_input_tokens) THEN ids
  ELSE SubSeq(ids, 1, Min(Len(ids), Val(truncate_input_tokens)))

\* len(ss) of a stop sequence; long strings are named by their length
StrLen(ss) ==
  CASE ss = ""     -> 0
    [] ss = "s240" -> 240
    [] ss = "s241" -> 241
    [] OTHER       -> 1

----------------------------------------------------------------------------
(* _validate_and_convert_params *)

\* a stop sequence of exactly MAX_STOP_SEQ_LENGTH is refused
ParamsErrorShortStop(params) ==
  LET stopping == params.stopping
      max_set == stopping.max_new_tokens > 0
      min_new_tokens == Max(0, stopping.min_new_tokens)
      stop_sequences == stopping.stop_sequences
      top_n_tokens == params.response.top_n_tokens
  IN \/ params.decoding.has_length_penalty
     \/ max_set /\ stopping.max_new_tokens > max_max_new_tokens
     \/ /\ min_new_tokens > 0
        /\ IF max_set THEN min_new_tokens > stopping.max_new_tokens
                      ELSE min_new_tokens > max_max_new_tokens
     \/ stop_sequences # << >> /\ Len(stop_sequences) > MAX_STOP_SEQS
     \/ ~ \A k \in 1 .. Len(stop_sequences) :
             0 < StrLen(stop_sequences[k])
             /\ StrLen(stop_sequences[k]) < MAX_STOP_SEQ_LENGTH
     \/ top_n_tokens # 0 /\ top_n_tokens > MAX_TOP_N_TOKENS

ParamsError(params) ==
  LET stopping == params.stopping
      max_set == stopping.max_new_tokens > 0
      min_new_tokens == Max(0, stopping.min_new_tokens)
      stop_sequences == stopping.stop_sequences
      top_n_tokens == params.response.top_n_tokens
  IN \/ params.decoding.has_length_penalty
     \/ max_set /\ stopping.max_new_tokens > max_max_new_tokens
     \/ /\ min_new_tokens > 0
        /\ IF max_set THEN min_new_tokens > stopping.max_new_tokens
                      ELSE min_new_tokens > max_max_new_tokens
     \/ stop_sequences # << >> /\ Len(stop_sequences) > MAX_STOP_SEQS
     \/ ~ \A k \in 1 .. Len(stop_sequences) :
             0 < StrLen(stop_sequences[k])
             /\ StrLen(stop_sequences[k]) <= MAX_STOP_SEQ_LENGTH
     \/ top_n_tokens # 0 /\ top_n_tokens > MAX_TOP_N_TOKENS

\* the selected token is not discounted under greedy decoding
LogprobsCountNoDiscount(params) ==
  LET resp_options == params.response
      greedy == params.method = "GREEDY"
      base == IF resp_options.token_logprobs \/ resp_options.token_ranks
              THEN 1 ELSE 0
      top_n_tokens == resp_options.top_n_tokens
      logprobs == IF top_n_tokens # 0
                  THEN base + top_n_tokens
                  ELSE base
  IN with_default_None(logprobs)

LogprobsCount(params) ==
  LET resp_options == params.response
      greedy == params.method = "GREEDY"
      base == IF resp_options.token_logprobs \/ resp_options.token_ranks
              THEN 1 ELSE 0
      top_n_tokens == resp_options.top_n_tokens
      logprobs == IF top_n_tokens # 0
                  THEN base + top_n_tokens
                       - (IF greedy /\ resp_options.token_logprobs
                          THEN 1 ELSE 0)
                  ELSE base
  IN with_default_None(logprobs)

\* a deadline is computed whatever the time limit
DeadlineAlways(params, now) == Some(now + params.stopping.time_limit_millis)

Deadline(params, now) ==
  LET time_limit_millis == params.stopping.time_limit_millis IN
  IF time_limit_millis > 0 THEN Some(now + time_limit_millis) ELSE None

\* greedy decoding keeps the supplied temperature
SamplingParamsKeepTemperature(params) ==
  LET stopping == params.stopping
      sampling == params.sampling
      greedy == params.method = "GREEDY"
      logprobs == LogprobsCount(params)
  IN [ logprobs |-> logprobs,
       prompt_logprobs |-> IF params.response.input_tokens
                           THEN logprobs ELSE None,
       max_tokens |-> IF stopping.max_new_tokens > 0
                      THEN Some(stopping.max_new_tokens) ELSE None,
       min_tokens |-> Max(0, stopping.min_new_tokens),
       temperature |-> with_default(sampling.temperature, 10),
       top_k |-> with_default(sampling.top_k, -1),
       top_p |-> with_default(sampling.top_p, 10),
       seed |-> sampling.seed,
       repetition_penalty |->
           with_default(params.decoding.repetition_penalty, 10),
       logits_processors |->
           IF ~greedy /\ 0 < sampling.typical_p /\ sampling.typical_p < 10
           THEN Some(sampling.typical_p) ELSE None,
       stop |-> IF stopping.stop_sequences # << >>
                THEN Some(stopping.stop_sequences) ELSE None ]

SamplingParams(params) ==
  LET stopping == params.stopping
      sampling == params.sampling
      greedy == params.method = "GREEDY"
      logprobs == LogprobsCount(params)
  IN [ logprobs |-> logprobs,
       prompt_logprobs |-> IF params.response.input_tokens
                           THEN logprobs ELSE None,
       max_tokens |-> IF stopping.max_new_tokens > 0
                      THEN Some(stopping.max_new_tokens) ELSE None,
       min_tokens |-> Max(0, stopping.min_new_tokens),
       temperature |-> IF ~greedy THEN with_default(sampling.temperature, 10)
                       ELSE 0,
       top_k |-> with_default(sampling.top_k, -1),
       top_p |-> with_default(sampling.top_p, 10),
       seed |-> sampling.seed,
       repetition_penalty |->
           with_default(params.decoding.repetition_penalty, 10),
       logits_processors |->
           IF ~greedy /\ 0 < sampling.typical_p /\ sampling.typical_p < 10
           THEN Some(sampling.typical_p) ELSE None,
       stop |-> IF stopping.stop_sequences # << >>
                THEN Some(stopping.stop_sequences) ELSE None ]

----------------------------------------------------------------------------
(* _validate_prompt_and_tokenize *)

\* the check of min_new_tokens against the window is left out
PromptErrorNoMin(sp, token_num) == token_num >= max_model_len

\* the two context.abort conditions
PromptError(sp, token_num) ==
  \/ token_num >= max_model_len
  \/ token_num + sp.min_tokens > max_model_len

\* a bound that is set is never clamped to the window
PreparedMaxTokensNoClamp(sp, token_num) ==
  IF IsNone(sp.max_tokens)
  THEN Some(Min(max_max_new_tokens, max_model_len - token_num))
  ELSE sp.max_tokens

\* the (mutated) sampling_params.max_tokens
PreparedMaxTokens(sp, token_num) ==
  IF IsNone(sp.max_tokens)
  THEN Some(Min(max_max_new_tokens, max_model_len - token_num))
  ELSE IF token_num + Val(sp.max_tokens) > max_model_len
  THEN Some(max_model_len - token_num)
  ELSE sp.max_tokens

\* a clamped bound is not flagged
PreparedIsTokenLimitUnsetOnly(sp, token_num) == IsNone(sp.max_tokens)

\* the returned max_is_token_limit flag
PreparedIsTokenLimit(sp, token_num) ==
  IF IsNone(sp.max_tokens) THEN TRUE
  ELSE token_num + Val(sp.max_tokens) > max_model_len

----------------------------------------------------------------------------
(* _convert_reason: <<stop_reason, stop_sequence>>.  The structured stop   *)
(* indicator output.stop_reason is <<"absent">> when the attribute does    *)
(* not exist, <<"none">> for None, <<"str", s>> or <<"int", id>>.          *)

\* a stop is always reported as a stop sequence
_convert_reason_NoEos(output, is_token_limit, time_limit) ==
  LET finish_reason == output.finish_reason IN
  IF IsNone(finish_reason)
  THEN <<IF time_limit THEN "TIME_LIMIT" ELSE "NOT_FINISHED", None>>
  ELSE IF Val(finish_reason) = "length"
  THEN <<IF is_token_limit THEN "TOKEN_LIMIT" ELSE "MAX_TOKENS", None>>
  ELSE IF Val(finish_reason) = "stop"
  THEN CASE output.stop_reason[1] = "str" ->
              <<"STOP_SEQUENCE", Some(output.stop_reason[2])>>
         [] OTHER -> <<"STOP_SEQUENCE", None>>
  ELSE <<"CANCELLED", None>>

\* the time-limit flag is looked at before the finish condition
_convert_reason_TimeFirst(output, is_token_limit, time_limit) ==
  LET finish_reason == output.finish_reason IN
  IF time_limit THEN <<"TIME_LIMIT", None>>
  ELSE IF IsNone(finish_reason) THEN <<"NOT_FINISHED", None>>
  ELSE IF Val(finish_reason) = "length"
  THEN <<IF is_token_limit THEN "TOKEN_LIMIT" ELSE "MAX_TOKENS", None>>
  ELSE IF Val(finish_reason) = "stop"
  THEN CASE output.stop_reason[1] = "absent" -> <<"STOP_SEQUENCE", None>>
         [] output.stop_reason[1] = "none" -> <<"EOS_TOKEN", None>>
         [] output.stop_reason[1] = "str" ->
              <<"STOP_SEQUENCE", Some(output.stop_reason[2])>>
         [] OTHER -> <<"STOP_SEQUENCE", None>>
  ELSE <<"CANCELLED", None>>

\* an unfinished output is NOT_FINISHED whatever the time-limit flag
_convert_reason_NoTimeLimit(output, is_token_limit, time_limit) ==
  LET finish_reason == output.finish_reason IN
  IF IsNone(finish_reason) THEN <<"NOT_FINISHED", None>>
  ELSE IF Val(finish_reason) = "length"
  THEN <<IF is_token_limit THEN "TOKEN_LIMIT" ELSE "MAX_TOKENS", None>>
  ELSE IF Val(finish_reason) = "stop"
  THEN CASE output.stop_reason[1] = "absent" -> <<"STOP_SEQUENCE", None>>
         [] output.stop_reason[1] = "none" -> <<"EOS_TOKEN", None>>
         [] output.stop_reason[1] = "str" ->
              <<"STOP_SEQUENCE", Some(output.stop_reason[2])>>
         [] OTHER -> <<"STOP_SEQUENCE", None>>
  ELSE <<"CANCELLED", None>>

_convert_reason(output, is_token_limit, time_limit) ==
  LET finish_reason == output.finish_reason IN
  IF IsNone(finish_reason)
  THEN <<IF time_limit THEN "TIME_LIMIT" ELSE "NOT_FINISHED", None>>
  ELSE IF Val(finish_reason) = "length"
  THEN <<IF is_token_limit THEN "TOKEN_LIMIT" ELSE "MAX_TOKENS", None>>
  ELSE IF Val(finish_reason) = "stop"
  THEN CASE output.stop_reason[1] = "absent" -> <<"STOP_SEQUENCE", None>>
         [] output.stop_reason[1] = "none" -> <<"EOS_TOKEN", None>>
         [] output.stop_reason[1] = "str" ->
              <<"STOP_SEQUENCE", Some(output.stop_reason[2])>>
         [] OTHER -> <<"STOP_SEQUENCE", None>>
  ELSE IF Val(finish_reason) = "abort"
  THEN <<"CANCELLED", None>>
  ELSE <<"CANCELLED", None>>

----------------------------------------------------------------------------
(* _convert_tokens.  A logprob map (a Python dict) is the sequence of its  *)
(* entries [tid, logprob, rank] in insertion order, without repeated tid.  *)

\* logprobs[tid]; a missing key (KeyError) is the entry of rank 0, which no
\* snapshot of the engine produces: the chosen token is always in its map
Lookup(logprobs, tid) ==
  IF \E k \in 1 .. Len(logprobs) : logprobs[k].tid = tid
  THEN logprobs[CHOOSE k \in 1 .. Len(logprobs) : logprobs[k].tid = tid]
  ELSE [tid |-> tid, logprob |-> 1, rank |-> 0]

\* sorted(items, key=logprob, reverse=True): stable, equal keys keep order
RECURSIVE SortedDesc(_)
SortedDesc(items) ==
  IF items = << >> THEN << >>
  ELSE LET n == Len(items)
           x == items[n]
           rest == SortedDesc(SubSeq(items, 1, n - 1))
           k == Cardinality({j \in 1 .. n - 1 : rest[j].logprob >= x.logprob})
       IN SubSeq(rest, 1, k) \o <<x>> \o SubSeq(rest, k + 1, n - 1)

\* the first entries of the map as inserted, not sorted
TopItemsUnsorted(logprobs, top_n_tokens) ==
  SubSeq(logprobs, 1, Min(top_n_tokens, Len(logprobs)))

\* sorted(...)[:top_n_tokens]
TopItems(logprobs, top_n_tokens) ==
  LET items == SortedDesc(logprobs) IN
  SubSeq(items, 1, Min(top_n_tokens, Len(items)))

\* token_ids[token_start_offset:]
SliceIds(token_ids, token_start_offset) ==
  SubSeq(token_ids, token_start_offset + 1, Len(token_ids))

\* the offset is applied to the id sequence only
SliceLogprobsUnshifted(logprobs_list, token_start_offset) ==
  IF IsNone(logprobs_list) THEN None
  ELSE Some(SubSeq(Val(logprobs_list), 1,
                   Len(Val(logprobs_list)) - token_start_offset))

\* logprobs_list[token_start_offset:] when the list is not None
SliceLogprobs(logprobs_list, token_start_offset) ==
  IF IsNone(logprobs_list) THEN None
  ELSE Some(SubSeq(Val(logprobs_list), token_start_offset + 1,
                   Len(Val(logprobs_list))))

\* one TokenInfo; lpmap is the optional logprob map of the position
TokenInfo(tid, lpmap, include_logprobs, include_ranks, top_n_tokens) ==
  LET present == ~IsNone(lpmap)
      logprob == Lookup(Val(lpmap), tid)
      items == TopItems(Val(lpmap), top_n_tokens)
  IN [ text |-> TokText(tid),
       logprob |-> IF present /\ include_logprobs
                   THEN Some(logprob.logprob) ELSE None,
       rank |-> IF present /\ include_ranks
                THEN Some(logprob.rank) ELSE None,
       top_tokens |->
         IF present /\ top_n_tokens # 0
         THEN [k \in 1 .. Len(items) |->
                 [ text |-> TokText(items[k].tid),
                   logprob |-> IF include_logprobs
                               THEN Some(items[k].logprob) ELSE None ]]
         ELSE << >> ]

_convert_tokens(token_ids, logprobs_list, include_logprobs, include_ranks, top_n_tokens, token_start_offset) ==
  LET ids == IF token_start_offset # 0
             THEN SliceIds(token_ids, token_start_offset) ELSE token_ids
      lps == IF token_start_offset # 0
             THEN SliceLogprobs(logprobs_list, token_start_offset)
             ELSE logprobs_list
  IN [i \in 1 .. Len(ids) |->
        TokenInfo(ids[i], IF IsNone(lps) THEN None ELSE Val(lps)[i],
                  include_logprobs, include_ranks, top_n_tokens)]

----------------------------------------------------------------------------
(* GenerationResponse, _convert_output and _convert_input_details *)

GenerationResponse ==
  [ text |-> << >>, generated_token_count |-> 0,
    stop_reason |-> "NOT_FINISHED", stop_sequence |-> None,
    tokens |-> << >>, input_token_count |-> 0, input_tokens |-> << >>,
    seed |-> None ]

\* the delta starts one character early
TextDeltaOverlap(text, text_start_offset) ==
  SubSeq(text, Max(1, text_start_offset), Len(text))

\* output.text[text_start_offset:]
TextDelta(text, text_start_offset) ==
  SubSeq(text, text_start_offset + 1, Len(text))

\* the number of tokens of the delta
GeneratedTokenCountDelta(token_ids, token_start_offset) ==
  Len(token_ids) - token_start_offset

\* generated_token_count=len(output.token_ids)
GeneratedTokenCount(token_ids, token_start_offset) == Len(token_ids)

_convert_output(output, resp_options, is_token_limit, time_limit, text_start_offset, token_start_offset) ==
  LET reason == _convert_reason(output, is_token_limit, time_limit) IN
  [ GenerationResponse EXCEPT
      !.text = TextDelta(output.text, text_start_offset),
      !.generated_token_count = GeneratedTokenCount(output.token_ids,
                                                    token_start_offset),
      !.stop_reason = reason[1],
      !.stop_sequence = reason[2],
      !.tokens = IF resp_options.generated_tokens
                 THEN _convert_tokens(output.token_ids, output.logprobs,
                                      resp_options.token_logprobs,
                                      resp_options.token_ranks,
                                      resp_options.top_n_tokens,
                                      token_start_offset)
                 ELSE << >> ]

_convert_input_details(result, resp_options, sp, response) ==
  [ response EXCEPT
      !.input_token_count = Len(result.prompt_token_ids),
      !.input_tokens = IF resp_options.input_tokens
                       THEN _convert_tokens(result.prompt_token_ids,
                                            result.prompt_logprobs,
                                            resp_options.token_logprobs,
                                            resp_options.token_ranks,
                                            resp_options.top_n_tokens, 0)
                       ELSE response.input_tokens,
      !.text = IF resp_options.input_text
               THEN result.prompt \o response.text ELSE response.text,
      !.seed = IF ~IsNone(sp.seed) THEN sp.seed ELSE response.seed ]

----------------------------------------------------------------------------
(* The engine (external collaborator).  A generator is the stream created  *)
(* by one engine.generate call: the output of its latest snapshot and the  *)
(* number of snapshots it has yielded.  The logprob of a token depends on  *)
(* its absolute context position, so maps at different positions differ.  *)

LogprobOf(tid, ctx) == 0 - (1 + ((tid + ctx) % 2))

RankOf(tid, ctx) ==
  1 + Cardinality({u \in Vocab :
        \/ LogprobOf(u, ctx) > LogprobOf(tid, ctx)
        \/ LogprobOf(u, ctx) = LogprobOf(tid, ctx) /\ u < tid})

Entry(tid, ctx) ==
  [tid |-> tid, logprob |-> LogprobOf(tid, ctx), rank |-> RankOf(tid, ctx)]

RECURSIVE SeqDesc(_)
SeqDesc(S) ==
  IF S = {} THEN << >>
  ELSE LET m == CHOOSE x \in S : \A y \in S : y <= x
       IN <<m>> \o SeqDesc(S \ {m})

\* the map of one position: the chosen token first, then the best k others
EngineLogprobs(tid, ctx, k) ==
  LET others == SeqDesc({u \in Vocab \ {tid} : RankOf(u, ctx) <= k})
  IN <<Entry(tid, ctx)>> \o [j \in 1 .. Len(others) |-> Entry(others[j], ctx)]

GreedyToken(ctx) == CHOOSE t \in Vocab : RankOf(t, ctx) = 1

EmptyOutput(sp) ==
  [ text |-> << >>, token_ids |-> << >>,
    logprobs |-> IF IsNone(sp.logprobs) THEN None ELSE Some(<< >>),
    finish_reason |-> None, stop_reason |-> <<"none">> ]

NewGenerator(sp) == [output |-> EmptyOutput(sp), yielded |-> 0]

Finished(g) == ~IsNone(g.output.finish_reason)

\* the sequences of k tokens the engine may append at context position ctx
NewTokens(sp, ctx, k) ==
  IF sp.temperature = 0
  THEN {[j \in 1 .. k |-> GreedyToken(ctx + j)]}
  ELSE [1 .. k -> Vocab]

\* <<finish_reason, stop_reason>> of a snapshot holding m tokens: not
\* finished below max_tokens and "length" at max_tokens, or stopped by the
\* end-of-sequence token or a stop sequence once min_tokens is reached, or
\* aborted
FinishChoices(sp, m) ==
  LET stops == {<<Some("stop"), <<"none">>>>}
               \cup (IF IsNone(sp.stop) THEN {}
                     ELSE {<<Some("stop"), <<"str", Val(sp.stop)[j]>>>> :
                             j \in 1 .. Len(Val(sp.stop))})
  IN (IF m < Val(sp.max_tokens) THEN {<<None, <<"none">>>>}
      ELSE {<<Some("length"), <<"none">>>>})
     \cup (IF m >= sp.min_tokens THEN stops ELSE {})
     \cup {<<Some("abort"), <<"none">>>>}

\* the outputs the generator may yield next: it appends tokens, and the
\* detokenizer may hold back the last character of an unfinished text
\* that ends in a token of several characters
EngineNext(g, sp, prompt_ids) ==
  LET cur == g.output
      n == Len(cur.token_ids)
      room == Val(sp.max_tokens) - n
  IN UNION {
       UNION {
         { [ text |-> LET full == Detok(cur.token_ids \o toks)
                      IN SubSeq(full, 1, Len(full) - held),
             token_ids |-> cur.token_ids \o toks,
             logprobs |->
               IF IsNone(sp.logprobs) THEN None
               ELSE Some(Val(cur.logprobs) \o
                         [j \in 1 .. k |->
                            Some(EngineLogprobs(toks[j],
                                                Len(prompt_ids) + n + j,
                                                Val(sp.logprobs)))]),
             finish_reason |-> fin[1],
             stop_reason |-> fin[2] ]
           : held \in (IF IsNone(fin[1]) /\ Len(TokText(toks[k])) > 1
                       THEN {0, 1} ELSE {0}) }
         : toks \in NewTokens(sp, Len(prompt_ids) + n, k),
           fin \in FinishChoices(sp, n + k) }
       : k \in 1 .. Min(MaxStepTokens, room) }

\* the RequestOutput wrapping an output; the engine got no text prompt
PromptLogprobs(sp, prompt_ids) ==
  IF IsNone(sp.prompt_logprobs) THEN None
  ELSE Some([p \in 1 .. Len(prompt_ids) |->
               IF p = 1 THEN None
               ELSE Some(EngineLogprobs(prompt_ids[p], p,
                                        Val(sp.prompt_logprobs)))])

RequestOutput(sp, prompt_ids, output) ==
  [ prompt |-> None, prompt_token_ids |-> prompt_ids,
    prompt_logprobs |-> PromptLogprobs(sp, prompt_ids),
    outputs0 |-> output ]

----------------------------------------------------------------------------
(* Requests *)

Plain ==
  [ input_text |-> FALSE, input_tokens |-> FALSE, generated_tokens |-> FALSE,
    token_logprobs |-> FALSE, token_ranks |-> FALSE, top_n_tokens |-> 0 ]

Detailed ==
  [ input_text |-> TRUE, input_tokens |-> TRUE, generated_tokens |-> TRUE,
    token_logprobs |-> TRUE, token_ranks |-> TRUE, top_n_tokens |-> 2 ]

MkParams(method, max_new, min_new, time_limit, stop_seqs, response) ==
  [ method |-> method,
    decoding |-> [has_length_penalty |-> FALSE, repetition_penalty |-> 0],
    sampling |-> [temperature |-> 0, top_k |-> 0, top_p |-> 0,
                  typical_p |-> 0, seed |-> None],
    stopping |-> [max_new_tokens |-> max_new, min_new_tokens |-> min_new,
                  time_limit_millis |-> time_limit,
                  stop_sequences |-> stop_seqs],
    truncate_input_tokens |-> 0,
    response |-> response ]

\* a prompt text of n tokens that starts with the two-character token
PromptOf(n) ==
  IF n = 0 THEN << >>
  ELSE <<"b", "c">> \o [i \in 1 .. n - 1 |-> IF i % 2 = 1 THEN "a" ELSE "d"]

\* another prompt text of n tokens, of one character each
AltPromptOf(n) == [i \in 1 .. n |-> IF i % 2 = 1 THEN "d" ELSE "a"]

\* prompts that leave 4, 3, 2, 1 and 0 tokens of the window
Prompts == {PromptOf(n) : n \in max_model_len - 4 .. max_model_len}

StreamParams ==
  { MkParams("GREEDY", mx, mn, tl, ss, r) :
      mx \in {0, 2, max_max_new_tokens + 1}, mn \in {0, 2},
      tl \in {0, TimeLimit}, ss \in {<< >>, <<"x">>},
      r \in {Plain, Detailed} }
  \cup { [MkParams("SAMPLE", 2, 0, tl, << >>, Detailed)
            EXCEPT !.sampling.seed = IF tl = 0 THEN Some(7) ELSE None] :
           tl \in {0, TimeLimit} }
  \cup { [MkParams("GREEDY", 0, 0, 0, << >>, Plain)
            EXCEPT !.truncate_input_tokens = 2] }

BatchParams ==
  { MkParams("GREEDY", mx, mn, 0, << >>, Plain) :
      mx \in {0, 2}, mn \in {0, 2} }
  \cup { MkParams("GREEDY", mx, 0, TimeLimit, << >>, Plain) : mx \in {0, 2} }
  \cup { MkParams("GREEDY", 0, 0, TimeLimit, << >>, Detailed) }

\* batches of prompts that leave 2, 2, 1 and 0 tokens of the window
BatchPrompts ==
  UNION {[1 .. n -> {PromptOf(k) : k \in max_model_len - 2 .. max_model_len}
                      \cup {AltPromptOf(max_model_len - 2)}] :
           n \in 1 .. MaxBatch}

request_count == Len(request.requests)

----------------------------------------------------------------------------
(* Generate and GenerateStream *)

Init ==
  /\ \/ /\ rpc = "GenerateStream"
        /\ request \in {[params |-> p, requests |-> <<t>>] :
                          p \in StreamParams, t \in Prompts}
     \/ /\ rpc = "Generate"
        /\ request \in {[params |-> p, requests |-> ts] :
                          p \in BatchParams, ts \in BatchPrompts}
  /\ pc = "validate_params"
  /\ status = "NONE"
  /\ sampling_params = None
  /\ deadline = None
  /\ clock = 0
  /\ member = 1
  /\ input_ids = << >>
  /\ max_is_token_limit = << >>
  /\ generators = << >>
  /\ aborts = << >>
  /\ responses = << >>
  /\ reply = None
  /\ first = TRUE
  /\ last_output_length = 0
  /\ last_token_count = 0
  /\ time_limit_reached = FALSE
  /\ emitted = << >>
  /\ call = None
  /\ returned = None

\* time.time() moves on while the handler is suspended; the handlers read
\* it only when a deadline is set, and clock counts from its computation
Tick ==
  /\ pc \in {"prepare", "generate"}
  /\ ~IsNone(deadline)
  /\ clock < MaxClock
  /\ clock' = clock + 1
  /\ UNCHANGED <<rpc, request, pc, status, sampling_params, deadline, member,
                 input_ids, max_is_token_limit, generators, aborts, responses,
                 reply, first, last_output_length, last_token_count,
                 time_limit_reached, emitted>>
  /\ UNCHANGED <<call, returned>>

\* _validate_and_convert_params, first step of both handlers
ValidateParams ==
  /\ pc = "validate_params"
  /\ IF ParamsError(request.params)
     THEN /\ pc' = "aborted"
          /\ status' = "INVALID_ARGUMENT"
          /\ UNCHANGED <<sampling_params, deadline, max_is_token_limit>>
     ELSE /\ pc' = "prepare"
          /\ sampling_params' = SamplingParams(request.params)
          /\ deadline' = Deadline(request.params, clock)
          /\ max_is_token_limit' = [i \in 1 .. request_count |-> FALSE]
          /\ UNCHANGED status
  /\ UNCHANGED <<rpc, request, clock, member, input_ids, generators, aborts,
                 responses, reply, first, last_output_length,
                 last_token_count, time_limit_reached, emitted>>
  /\ UNCHANGED <<call, returned>>

\* one round of the preparation loop: _validate_prompt_and_tokenize for
\* request `member`, then the engine.generate call with the shared
\* sampling_params object
PreparePrompt ==
  /\ pc = "prepare"
  /\ LET ids == encode_async(
                  request.requests[member],
                  with_default_None(request.params.truncate_input_tokens))
         token_num == Len(ids)
     IN IF PromptError(sampling_params, token_num)
        THEN /\ pc' = "aborted"
             /\ status' = "INVALID_ARGUMENT"
             /\ UNCHANGED <<sampling_params, member, input_ids,
                            max_is_token_limit, generators, responses>>
        ELSE /\ sampling_params' =
                  [sampling_params EXCEPT
                     !.max_tokens = PreparedMaxTokens(sampling_params,
                                                      token_num)]
             /\ max_is_token_limit' =
                  [max_is_token_limit EXCEPT
                     ![member] = PreparedIsTokenLimit(sampling_params,
                                                      token_num)]
             /\ input_ids' = Append(input_ids, ids)
             /\ generators' = Append(generators,
                                     NewGenerator(sampling_params'))
             /\ member' = member + 1
             /\ IF member = request_count
                THEN /\ pc' = "generate"
                     /\ responses' = [i \in 1 .. request_count |-> None]
                ELSE UNCHANGED <<pc, responses>>
             /\ UNCHANGED status
  /\ UNCHANGED <<rpc, request, deadline, clock, aborts, reply, first,
                 last_output_length, last_token_count, time_limit_reached,
                 emitted>>
  /\ UNCHANGED <<call, returned>>

\* deadline is not None and time.time() >= deadline
DeadlineExceeded(dl, now) == ~IsNone(dl) /\ now >= Val(dl)

\* the generator yields `output` as its next snapshot
Yield(i, output) ==
  [generators EXCEPT ![i] = [output |-> output, yielded |-> @.yielded + 1]]

\* the loop goes on after a time-limited delta
StreamNeverBreaks(time_limit) == FALSE

\* `if time_limit_reached: break` after the delta of a snapshot
StreamBreaks(time_limit) == time_limit

\* the input-detail response goes out with every snapshot
YieldFirstAlways(is_first, first_response) == <<first_response>>

\* `if first: ... yield first_response`
YieldFirst(is_first, first_response) ==
  IF is_first THEN <<first_response>> ELSE << >>

\* one round of the GenerateStream loop: the next snapshot arrives, the
\* input-detail response (first round only) and the delta are yielded
StreamStep ==
  /\ rpc = "GenerateStream"
  /\ pc = "generate"
  /\ ~Finished(generators[1])
  /\ \E output \in EngineNext(generators[1], sampling_params, input_ids[1]) :
       LET resp_options == request.params.response
           result == [RequestOutput(sampling_params, input_ids[1], output)
                        EXCEPT !.prompt = request.requests[1]]
           first_response ==
             _convert_input_details(result, resp_options, sampling_params,
                                    GenerationResponse)
           expired == DeadlineExceeded(deadline, clock)
           time_limit == expired \/ time_limit_reached
           delta == _convert_output(output, resp_options,
                                    max_is_token_limit[1], time_limit,
                                    last_output_length, last_token_count)
       IN /\ generators' = Yield(1, output)
          /\ emitted' = emitted
                        \o YieldFirst(first, first_response)
                        \o <<delta>>
          /\ first' = FALSE
          /\ aborts' = IF expired THEN Append(aborts, 0) ELSE aborts
          /\ time_limit_reached' = time_limit
          /\ IF StreamBreaks(time_limit)
             THEN /\ pc' = "done"
                  /\ status' = "OK"
                  /\ UNCHANGED <<last_output_length, last_token_count>>
             ELSE /\ last_output_length' = Len(output.text)
                  /\ last_token_count' = Len(output.token_ids)
                  /\ UNCHANGED <<pc, status>>
  /\ UNCHANGED <<rpc, request, sampling_params, deadline, clock, member,
                 input_ids, max_is_token_limit, responses, reply>>
  /\ UNCHANGED <<call, returned>>

\* the engine stream is exhausted: the loop and the call end
StreamEnd ==
  /\ rpc = "GenerateStream"
  /\ pc = "generate"
  /\ Finished(generators[1])
  /\ pc' = "done"
  /\ status' = "OK"
  /\ UNCHANGED <<rpc, request, sampling_params, deadline, clock, member,
                 input_ids, max_is_token_limit, generators, aborts, responses,
                 reply, first, last_output_length, last_token_count,
                 time_limit_reached, emitted>>
  /\ UNCHANGED <<call, returned>>

\* the first snapshot of an index is kept
StoreResponseOnce(resps, i, res) ==
  IF IsNone(resps[i]) THEN [resps EXCEPT ![i] = Some(res)] ELSE resps

\* responses[i] = res
StoreResponse(resps, i, res) == [resps EXCEPT ![i] = Some(res)]

\* the deadline is never looked at
BatchTimeLimitNever(dl, now, resps) == FALSE

\* deadline is not None and time.time() >= deadline and None not in responses
BatchTimeLimit(dl, now, resps) ==
  DeadlineExceeded(dl, now) /\ \A j \in 1 .. Len(resps) : ~IsNone(resps[j])

\* only the members that are still generating are aborted
BatchAbortsUnfinished(gens) ==
  SelectSeq([j \in 1 .. Len(gens) |-> j], LAMBDA j : ~Finished(gens[j]))

\* `for j in range(request_count): await self.engine.abort(...)`
BatchAborts(gens) == [j \in 1 .. Len(gens) |-> j]

\* one round of the Generate merge loop: stream i delivers its next snapshot
BatchStep(i) ==
  /\ rpc = "Generate"
  /\ pc = "generate"
  /\ ~Finished(generators[i])
  /\ \E output \in EngineNext(generators[i], sampling_params, input_ids[i]) :
       LET res == RequestOutput(sampling_params, input_ids[i], output)
           stored == StoreResponse(responses, i, res)
       IN /\ generators' = Yield(i, output)
          /\ responses' = stored
          /\ IF BatchTimeLimit(deadline, clock, stored)
             THEN /\ aborts' = aborts \o BatchAborts(generators')
                  /\ time_limit_reached' = TRUE
                  /\ pc' = "assemble"
             ELSE UNCHANGED <<aborts, time_limit_reached, pc>>
  /\ UNCHANGED <<rpc, request, status, sampling_params, deadline, clock,
                 member, input_ids, max_is_token_limit, reply, first,
                 last_output_length, last_token_count, emitted>>
  /\ UNCHANGED <<call, returned>>

\* the time-limit flag is left at its default (False)
AssembleNoTimeLimit(i) ==
  LET resp_options == request.params.response
      res == [Val(responses[i]) EXCEPT !.prompt = request.requests[i]]
      response == _convert_output(res.outputs0, resp_options,
                                  max_is_token_limit[i], FALSE, 0, 0)
  IN _convert_input_details(res, resp_options, sampling_params, response)

\* the response assembled for request i from the snapshot stored for it
Assemble(i) ==
  LET resp_options == request.params.response
      res == [Val(responses[i]) EXCEPT !.prompt = request.requests[i]]
      response == _convert_output(res.outputs0, resp_options,
                                  max_is_token_limit[i], time_limit_reached,
                                  0, 0)
  IN _convert_input_details(res, resp_options, sampling_params, response)

\* the merge loop has ended (exhausted or left by break): build the reply
BatchReply ==
  /\ rpc = "Generate"
  /\ \/ pc = "assemble"
     \/ pc = "generate" /\ \A i \in 1 .. request_count : Finished(generators[i])
  /\ reply' = Some([i \in 1 .. request_count |-> Assemble(i)])
  /\ pc' = "done"
  /\ status' = "OK"
  /\ UNCHANGED <<rpc, request, sampling_params, deadline, clock, member,
                 input_ids, max_is_token_limit, generators, aborts, responses,
                 first, last_output_length, last_token_count,
                 time_limit_reached, emitted>>
  /\ UNCHANGED <<call, returned>>

Next ==
  \/ Tick
  \/ ValidateParams
  \/ PreparePrompt
  \/ StreamStep
  \/ StreamEnd
  \/ \E i \in 1 .. request_count : BatchStep(i)
  \/ BatchReply

Spec == Init /\ [][Next]_vars

----------------------------------------------------------------------------
(* Properties of GenerateStream deltas *)

\* the token count of request i's prompt, after the requested truncation
TokenCount(i) ==
  LET ids == Encode(request.requests[i])
      cut == request.params.truncate_input_tokens
  IN IF cut = 0 \/ cut >= Len(ids) THEN Len(ids) ELSE cut

\* the prompt of request i does not fit the window with min_new_tokens
TooLong(i) ==
  \/ TokenCount(i) >= max_model_len
  \/ TokenCount(i) + Max(0, request.params.stopping.min_new_tokens)
       > max_model_len

IsStream == rpc = "GenerateStream"
IsBatch == rpc = "Generate"

\* the delta responses: every emitted response after the input-detail one
Deltas == Tail(emitted)

\* the last snapshot generator i has delivered
LastOutput(i) == generators[i].output

RECURSIVE ConcatText(_)
ConcatText(resps) ==
  IF resps = << >> THEN << >>
  ELSE Head(resps).text \o ConcatText(Tail(resps))

RECURSIVE ConcatTokens(_)
ConcatTokens(resps) ==
  IF resps = << >> THEN << >>
  ELSE Head(resps).tokens \o ConcatTokens(Tail(resps))

\* C1: after every delta emission of GenerateStream, whether the stream
\* goes on, is exhausted or was cut by the deadline, the text of the delta
\* responses concatenated in emission order is the cumulative text of the
\* last snapshot consumed
C1_DeltaTextComplete ==
  IsStream /\ Len(emitted) >= 2
    => ConcatText(Deltas) = LastOutput(1).text

\* a stream cut by the deadline at its third snapshot, whose first delta
\* ends inside a token (one character held back) and whose second delta
\* starts with the held character
C1_Witness ==
  /\ IsStream /\ pc = "done" /\ time_limit_reached
  /\ Len(emitted) = 4
  /\ emitted[2].text = <<"b">>
  /\ Head(emitted[3].text) = "c"
  /\ Len(LastOutput(1).text) >= 4

\* C2: with generated-token details requested, the token details of the
\* delta responses concatenated in emission order are one detail per token
\* of the last snapshot consumed, in order, and the detail at absolute
\* position p gives the text of token p and the logprob, rank and
\* alternatives read from the logprob map of position p
C2_DeltaTokensAligned ==
  IsStream /\ Len(emitted) >= 2 /\ request.params.response.generated_tokens
    => LET all == ConcatTokens(Deltas)
           out == LastOutput(1)
           opts == request.params.response
       IN /\ Len(all) = Len(out.token_ids)
          /\ \A p \in 1 .. Len(all) :
               LET tid == out.token_ids[p]
                   lpmap == Val(Val(out.logprobs)[p])
                   own == CHOOSE e \in {lpmap[k] : k \in 1 .. Len(lpmap)} :
                            e.tid = tid
                   alts == TopItems(lpmap, opts.top_n_tokens)
               IN /\ all[p].text = TokText(tid)
                  /\ ~IsNone(out.logprobs) =>
                       /\ all[p].logprob = Some(own.logprob)
                       /\ all[p].rank = Some(own.rank)
                       /\ all[p].top_tokens =
                            [k \in 1 .. Len(alts) |->
                               [text |-> TokText(alts[k].tid),
                                logprob |-> Some(alts[k].logprob)]]

\* a sampled stream with details whose second delta carries one token that
\* differs from the first token, after a first delta of one token
C2_Witness ==
  /\ IsStream /\ request.params.response.generated_tokens
  /\ request.params.method = "SAMPLE"
  /\ Len(emitted) = 3
  /\ Len(emitted[2].tokens) = 1 /\ Len(emitted[3].tokens) = 1
  /\ emitted[3].tokens[1].text # emitted[2].tokens[1].text
  /\ emitted[3].tokens[1].rank # emitted[2].tokens[1].rank

----------------------------------------------------------------------------
(* Properties of the Generate reply and of the deadline *)

Last(seq) == seq[Len(seq)]

\* C3: the reply of Generate holds one response per request, and response
\* i carries the last snapshot delivered by stream i (its text after
\* request i's prompt text when the echo is requested, its token count, its
\* tokens) and the token count of prompt i, whatever the order in which
\* the streams delivered
C3_ReplyInRequestOrder ==
  IsBatch /\ pc = "done"
    => LET r == Val(reply)
           opts == request.params.response
       IN /\ Len(r) = Len(request.requests)
          /\ \A i \in 1 .. Len(request.requests) :
               LET out == LastOutput(i) IN
               /\ r[i].text = (IF opts.input_text THEN request.requests[i]
                               ELSE << >>) \o out.text
               /\ r[i].generated_token_count = Len(out.token_ids)
               /\ r[i].input_token_count = TokenCount(i)
               /\ opts.generated_tokens =>
                    /\ Len(r[i].tokens) = Len(out.token_ids)
                    /\ \A p \in 1 .. Len(out.token_ids) :
                         r[i].tokens[p].text = TokText(out.token_ids[p])

\* a reply for two different prompts, both streams having delivered a
\* snapshot that overwrote an earlier one, with different final texts
C3_Witness ==
  /\ IsBatch /\ pc = "done" /\ Len(request.requests) = 2
  /\ request.requests[1] # request.requests[2]
  /\ generators[1].yielded >= 2
  /\ generators[2].yielded >= 2
  /\ request.params.response.input_text
  /\ Val(reply)[1].text # Val(reply)[2].text

\* C4 as stated: when the deadline is found exceeded with every index
\* holding a snapshot, every response of the reply reports TIME_LIMIT
C4_AllTimeLimit ==
  IsBatch /\ pc = "done" /\ time_limit_reached
    => /\ Len(Val(reply)) = Len(request.requests)
       /\ \A i \in 1 .. Len(request.requests) :
            Val(reply)[i].stop_reason = "TIME_LIMIT"

\* C4 amended: when the deadline is found exceeded with every index
\* holding a snapshot, the reply has a response for every request; a
\* member whose last snapshot carries no finish condition reports
\* TIME_LIMIT and a member whose last snapshot carries one reports the
\* reason of that condition, never TIME_LIMIT or NOT_FINISHED
C4_UnfinishedTimeLimit ==
  IsBatch /\ pc = "done" /\ time_limit_reached
    => /\ Len(Val(reply)) = Len(request.requests)
       /\ \A i \in 1 .. Len(request.requests) :
            IF IsNone(LastOutput(i).finish_reason)
            THEN Val(reply)[i].stop_reason = "TIME_LIMIT"
            ELSE Val(reply)[i].stop_reason
                   \in {"MAX_TOKENS", "TOKEN_LIMIT", "EOS_TOKEN",
                        "STOP_SEQUENCE", "CANCELLED"}

\* a time-limited batch of two with one member unfinished and one finished
C4_Witness ==
  /\ IsBatch /\ pc = "done" /\ time_limit_reached
  /\ Len(request.requests) = 2
  /\ Val(reply)[1].stop_reason = "TIME_LIMIT"
  /\ ~IsNone(LastOutput(2).finish_reason)
  /\ Len(aborts) = 2

\* C5 as stated: the response emitted for the snapshot at which the
\* deadline is found exceeded ends the stream and reports TIME_LIMIT
C5_DeadlineIsTimeLimit ==
  IsStream /\ time_limit_reached
    => pc = "done" /\ Last(emitted).stop_reason = "TIME_LIMIT"

\* C5 amended: the response emitted for the snapshot at which the deadline
\* is found exceeded ends the stream and carries the output so far; it
\* reports TIME_LIMIT when the snapshot has no finish condition and the
\* reason of the finish condition when it has one
C5_DeadlineEndsStream ==
  IsStream /\ time_limit_reached
    => /\ pc = "done"
       /\ Last(emitted).generated_token_count = Len(LastOutput(1).token_ids)
       /\ IF IsNone(LastOutput(1).finish_reason)
          THEN Last(emitted).stop_reason = "TIME_LIMIT"
          ELSE Last(emitted).stop_reason
                 \in {"MAX_TOKENS", "TOKEN_LIMIT", "EOS_TOKEN",
                      "STOP_SEQUENCE", "CANCELLED"}

\* a stream ended by the deadline at its second snapshot, unfinished
C5_Witness ==
  /\ IsStream /\ time_limit_reached /\ pc = "done"
  /\ Len(emitted) = 3
  /\ Last(emitted).stop_reason = "TIME_LIMIT"
  /\ Last(emitted).generated_token_count >= 2

\* C6: GenerateStream aborts the request at most once; a snapshot is
\* answered by an abort exactly when the deadline is exceeded as it is
\* consumed, aborts come with no other step, and once that snapshot's
\* response is emitted nothing more is consumed or emitted
C6_OneAbortThenEnd ==
  [][IsStream =>
       /\ Len(aborts') <= 1
       /\ (pc = "generate" /\ generators' # generators) =>
            (aborts' = Append(aborts, 0)
               <=> (~IsNone(deadline) /\ clock >= Val(deadline)))
       /\ generators' = generators => aborts' = aborts
       /\ aborts # << >> =>
            generators' = generators /\ emitted' = emitted]_vars

\* a stream aborted at its second snapshot
C6_Witness ==
  /\ IsStream /\ Len(aborts) = 1 /\ pc = "done"
  /\ generators[1].yielded = 2
  /\ Len(emitted) = 3

----------------------------------------------------------------------------
(* Properties of prompt preparation *)

\* C8: a single request that passed preparation runs with max_new_tokens
\* min(ceiling, window - n) flagged implicit when the caller set none, with
\* window - n flagged implicit when n plus the caller's bound exceeds the
\* window, and with the caller's bound flagged explicit otherwise; its
\* "length" finish then reports MAX_TOKENS exactly when the caller's bound
\* fit the window, else TOKEN_LIMIT
C8_SinglePreparation ==
  IsStream /\ pc \in {"generate", "done"}
    => LET n == TokenCount(1)
           asked == request.params.stopping.max_new_tokens
           fits == asked > 0 /\ n + asked <= max_model_len
       IN /\ n < max_model_len
          /\ n + sampling_params.min_tokens <= max_model_len
          /\ sampling_params.max_tokens =
               Some(IF asked = 0
                    THEN Min(max_max_new_tokens, max_model_len - n)
                    ELSE IF n + asked > max_model_len
                    THEN max_model_len - n
                    ELSE asked)
          /\ max_is_token_limit[1] = ~fits
          /\ (emitted # << >>
              /\ LastOutput(1).finish_reason = Some("length")) =>
               Last(emitted).stop_reason =
                 (IF fits THEN "MAX_TOKENS" ELSE "TOKEN_LIMIT")

\* a stream whose requested bound of 2 was clamped to 1 by a prompt of 3
\* tokens and that finished by length
C8_Witness ==
  /\ IsStream /\ pc = "done"
  /\ request.params.stopping.max_new_tokens = 2
  /\ TokenCount(1) = 3
  /\ sampling_params.max_tokens = Some(1)
  /\ LastOutput(1).finish_reason = Some("length")
  /\ Last(emitted).stop_reason = "TOKEN_LIMIT"

\* C9: once the parameters are accepted, min_new_tokens <= max_new_tokens
\* holds whenever max_new_tokens is set; once a request of the call has
\* been prepared, and so once all of them have, max_new_tokens is a number
\* and min_new_tokens <= max_new_tokens still holds
C9_MinWithinMax ==
  /\ pc \in {"prepare", "generate", "assemble", "done"} =>
       (~IsNone(sampling_params.max_tokens) =>
          sampling_params.min_tokens <= Val(sampling_params.max_tokens))
  /\ (pc \in {"generate", "assemble", "done"}
      \/ (pc = "prepare" /\ member > 1)) =>
       /\ ~IsNone(sampling_params.max_tokens)
       /\ Val(sampling_params.max_tokens) \in Nat
       /\ sampling_params.min_tokens <= Val(sampling_params.max_tokens)

\* a batch of two prepared with min_new_tokens 2 and no requested bound,
\* the window leaving exactly 2 tokens
C9_Witness ==
  /\ IsBatch /\ pc = "generate" /\ Len(request.requests) = 2
  /\ request.params.stopping.max_new_tokens = 0
  /\ sampling_params.min_tokens = 2
  /\ sampling_params.max_tokens = Some(2)

\* C10: a call holding a prompt that does not fit the window never
\* completes; it is rejected with invalid-argument, without any response,
\* and before engine.generate has been called for any of its requests
C10_RejectedBeforeGenerate ==
  /\ pc = "done" => \A i \in 1 .. Len(request.requests) : ~TooLong(i)
  /\ pc = "aborted" =>
       /\ status = "INVALID_ARGUMENT"
       /\ reply = None /\ emitted = << >>
       /\ generators = << >>

----------------------------------------------------------------------------
(* The stop-reason classifier on its own: every combination of finish      *)
(* condition, stop indicator and flags is classified once.                 *)

\* the handler variables of a specification that runs no handler
NoHandler ==
  /\ rpc = "None" /\ request = None /\ pc = "idle" /\ status = "NONE"
  /\ sampling_params = None /\ deadline = None /\ clock = 0 /\ member = 1
  /\ input_ids = << >> /\ max_is_token_limit = << >> /\ generators = << >>
  /\ aborts = << >> /\ responses = << >> /\ reply = None /\ first = TRUE
  /\ last_output_length = 0 /\ last_token_count = 0
  /\ time_limit_reached = FALSE /\ emitted = << >>

HandlerVars ==
  <<rpc, request, pc, status, sampling_params, deadline, clock, member,
    input_ids, max_is_token_limit, generators, aborts, responses, reply,
    first, last_output_length, last_token_count, time_limit_reached,
    emitted>>

FinishReasons == {None, Some("length"), Some("stop"), Some("abort"),
                  Some("error")}

StopIndicators == {<<"absent">>, <<"none">>, <<"str", "x">>,
                   <<"str", "s240">>, <<"int", 2>>}

InitReason ==
  /\ NoHandler
  /\ call \in {[output |-> [finish_reason |-> f, stop_reason |-> ind],
                max_is_token_limit |-> lim, time_limit_reached |-> tl] :
                 f \in FinishReasons, ind \in StopIndicators,
                 lim \in BOOLEAN, tl \in BOOLEAN}
  /\ returned = None

ConvertReason ==
  /\ IsNone(returned)
  /\ returned' = Some(_convert_reason(call.output, call.max_is_token_limit,
                                    call.time_limit_reached))
  /\ UNCHANGED <<HandlerVars, call>>

NextReason == ConvertReason

SpecReason == InitReason /\ [][NextReason]_vars

\* C7: the classifier answers every input; no finish condition gives
\* TIME_LIMIT with the time-limit flag and NOT_FINISHED without, "length"
\* gives TOKEN_LIMIT for an implicit bound and MAX_TOKENS otherwise, "stop"
\* gives EOS_TOKEN for the None indicator and STOP_SEQUENCE otherwise,
\* "abort" and anything else give CANCELLED whatever the time-limit flag;
\* a stop sequence is attached only to STOP_SEQUENCE, and then it is the
\* indicator's string
C7_ClassifierTable ==
  ~IsNone(returned)
    => LET fin == call.output.finish_reason
           ind == call.output.stop_reason
           reason == Val(returned)[1]
           matched == Val(returned)[2]
       IN /\ fin = None =>
               reason = (IF call.time_limit_reached THEN "TIME_LIMIT"
                         ELSE "NOT_FINISHED")
          /\ fin = Some("length") =>
               reason = (IF call.max_is_token_limit THEN "TOKEN_LIMIT"
                         ELSE "MAX_TOKENS")
          /\ fin = Some("stop") =>
               reason = (IF ind = <<"none">> THEN "EOS_TOKEN"
                         ELSE "STOP_SEQUENCE")
          /\ fin \in {Some("abort"), Some("error")} => reason = "CANCELLED"
          /\ matched # None =>
               reason = "STOP_SEQUENCE" /\ ind = <<"str", matched[1]>>
          /\ (fin = Some("stop") /\ ind[1] = "str") => matched = Some(ind[2])

\* an end-of-sequence stop classified while the time-limit flag is set
C7_Witness ==
  /\ ~IsNone(returned)
  /\ call.output.finish_reason = Some("stop")
  /\ call.output.stop_reason = <<"none">>
  /\ call.time_limit_reached
  /\ Val(returned) = <<"EOS_TOKEN", None>>

\* C16: a GenerateStream call that has consumed k >= 1 snapshots has
\* emitted k + 1 responses (none for k = 0); the first one is the only
\* input-detail response: it carries the input token count, the prompt
\* text, the input-token details and the seed only when requested or
\* present, and no generated content (count 0, no tokens, NOT_FINISHED);
\* every later response is a delta without input details whose text is a
\* piece of the generated text
C16_InputDetailFirst ==
  (IsStream /\ pc \in {"generate", "done"})
    => LET k == generators[1].yielded
           ro == request.params.response
           generated == LastOutput(1).text
       IN /\ Len(emitted) = (IF k = 0 THEN 0 ELSE k + 1)
          /\ k >= 1 =>
               LET d == emitted[1] IN
               /\ d.input_token_count = TokenCount(1)
               /\ d.text = (IF ro.input_text THEN request.requests[1]
                            ELSE << >>)
               /\ Len(d.input_tokens)
                    = (IF ro.input_tokens THEN TokenCount(1) ELSE 0)
               /\ d.seed = request.params.sampling.seed
               /\ d.generated_token_count = 0
               /\ d.tokens = << >>
               /\ d.stop_reason = "NOT_FINISHED"
               /\ d.stop_sequence = None
          /\ \A j \in 2 .. Len(emitted) :
               /\ emitted[j].input_token_count = 0
               /\ emitted[j].input_tokens = << >>
               /\ emitted[j].seed = None
               /\ \E a \in 1 .. Len(generated) + 1, b \in 0 .. Len(generated) :
                    emitted[j].text = SubSeq(generated, a, b)

\* a finished stream of two snapshots with everything requested and a
\* seed: three responses, the first with prompt text, input tokens and seed
C16_Witness ==
  /\ IsStream /\ pc = "done"
  /\ generators[1].yielded = 2
  /\ Len(emitted) = 3
  /\ request.params.response = Detailed
  /\ emitted[1].text = request.requests[1]
  /\ Len(emitted[1].input_tokens) = TokenCount(1)
  /\ emitted[1].seed = Some(7)
  /\ emitted[3].generated_token_count = 2
  /\ emitted[3].text # << >>

\* C17: a Generate call of N requests issues aborts only in a step that
\* stores a snapshot while the deadline is exceeded and every index holds
\* a snapshot; that step issues one abort for each of the N ids, in order,
\* finished members included, and ends the merge; a snapshot stored while
\* the deadline is exceeded and some index is still empty issues none;
\* nothing is aborted in any other step
C17_BatchAborts ==
  [][IsBatch =>
       LET N == request_count
           stored == pc = "generate" /\ generators' # generators
           full == \A j \in 1 .. N : ~IsNone(responses'[j])
           exceeded == DeadlineExceeded(deadline, clock)
       IN /\ aborts' # aborts =>
               /\ stored /\ exceeded /\ full
               /\ aborts = << >>
          /\ (stored /\ exceeded /\ full) =>
               /\ aborts' = [j \in 1 .. N |-> j]
               /\ time_limit_reached'
               /\ pc' = "assemble"
          /\ (stored /\ ~(exceeded /\ full)) =>
               aborts' = << >> /\ pc' = "generate"
          /\ aborts # << >> =>
               generators' = generators /\ responses' = responses]_vars

\* the deadline passed while member 2 had no snapshot and member 1 had
\* finished; member 2's first snapshot then aborts both
C17_Witness ==
  /\ IsBatch /\ request_count = 2
  /\ aborts = <<1, 2>>
  /\ Finished(generators[1])
  /\ ~Finished(generators[2])
  /\ generators[2].yielded = 1
  /\ generators[1].yielded >= 2

\* the bound preparation gives a single request of n prompt tokens whose
\* caller asked for `asked` new tokens (0: none asked)
SingleBound(asked, n) ==
  IF asked = 0 THEN Min(max_max_new_tokens, max_model_len - n)
  ELSE Min(asked, max_model_len - n)

\* C18: every member of a Generate batch that passed preparation runs with
\* the max_new_tokens bound that preparation gives that member as a single
\* request, whatever the prompts and positions of the other members
C18_MemberBoundUnshared ==
  (IsBatch /\ pc \in {"generate", "assemble", "done"})
    => \A i \in 1 .. request_count :
         sampling_params.max_tokens
           = Some(SingleBound(request.params.stopping.max_new_tokens,
                              TokenCount(i)))

\* C19: in a Generate batch whose caller set no max_new_tokens the bound of
\* every member is flagged implicit, and a member that finished by
\* "length" is reported TOKEN_LIMIT in the reply
C19_ImplicitForEveryMember ==
  (/\ IsBatch
   /\ request.params.stopping.max_new_tokens = 0
   /\ pc \in {"generate", "assemble", "done"})
    => \A i \in 1 .. request_count :
         /\ max_is_token_limit[i]
         /\ (pc = "done"
             /\ LastOutput(i).finish_reason = Some("length")) =>
              Val(reply)[i].stop_reason = "TOKEN_LIMIT"

\* C20: with engine streams that carry a finish condition on their last
\* snapshot and on no earlier one, no response of a Generate reply is
\* NOT_FINISHED, the last response of a finished GenerateStream call is
\* not NOT_FINISHED, and every delta before the last is NOT_FINISHED
C20_NotFinishedMidStream ==
  /\ (IsBatch /\ pc = "done") =>
       /\ Len(Val(reply)) = request_count
       /\ \A i \in 1 .. request_count :
            Val(reply)[i].stop_reason # "NOT_FINISHED"
  /\ (IsStream /\ pc = "done") =>
       /\ emitted # << >>
       /\ Last(emitted).stop_reason # "NOT_FINISHED"
  /\ IsStream =>
       /\ \A j \in 1 .. Len(emitted) - 1 :
            emitted[j].stop_reason = "NOT_FINISHED"
       /\ (pc = "generate" /\ ~Finished(generators[1])) =>
            \A j \in 1 .. Len(emitted) :
              emitted[j].stop_reason = "NOT_FINISHED"

\* a stream cut by the deadline at its second snapshot: the first delta is
\* NOT_FINISHED, the last one TIME_LIMIT
C20_Witness ==
  /\ IsStream /\ pc = "done"
  /\ Len(emitted) = 3
  /\ emitted[2].stop_reason = "NOT_FINISHED"
  /\ emitted[3].stop_reason = "TIME_LIMIT"
  /\ ~Finished(generators[1])

\* C21: a call whose parameters give no positive time limit has no
\* deadline; it issues no abort, none of its responses reports TIME_LIMIT,
\* and it ends only when every engine stream is exhausted
C21_NoTimeLimitNoAbort ==
  (/\ request.params.stopping.time_limit_millis <= 0
   /\ pc \in {"prepare", "generate", "assemble", "done"})
    => /\ deadline = None
       /\ aborts = << >>
       /\ ~time_limit_reached
       /\ pc # "assemble"
       /\ \A j \in 1 .. Len(emitted) : emitted[j].stop_reason # "TIME_LIMIT"
       /\ (IsBatch /\ pc = "done") =>
            \A i \in 1 .. request_count :
              Val(reply)[i].stop_reason # "TIME_LIMIT"
       /\ pc = "done" =>
            \A i \in 1 .. request_count : Finished(generators[i])

\* a batch of two without time limit that ended after three or more snapshots
C21_Witness ==
  /\ IsBatch /\ pc = "done" /\ request_count = 2
  /\ request.params.stopping.time_limit_millis = 0
  /\ generators[1].yielded + generators[2].yielded >= 3
  /\ Finished(generators[1]) /\ Finished(generators[2])
  /\ aborts = << >>

\* C22: once every request of a call is prepared, token_count_i plus the
\* resolved max_new_tokens is within the window for every request i and
\* the bound is between 1 and the ceiling; preparing a further batch
\* member never raises a bound that is set
C22_BoundWithinWindow ==
  [][/\ pc' \in {"generate", "assemble", "done"} =>
          LET bound == Val(sampling_params'.max_tokens) IN
          /\ \A i \in 1 .. request_count :
               TokenCount(i) + bound <= max_model_len
          /\ 1 <= bound /\ bound <= max_max_new_tokens
     /\ (pc = "prepare" /\ pc' # "aborted"
         /\ ~IsNone(sampling_params.max_tokens)) =>
          Val(sampling_params'.max_tokens) <= Val(sampling_params.max_tokens)
    ]_vars

\* a batch whose second member lowered the bound its first member left
C22_Witness ==
  /\ IsBatch /\ pc = "generate" /\ request_count = 2
  /\ TokenCount(1) = max_model_len - 2
  /\ TokenCount(2) = max_model_len - 1
  /\ sampling_params.max_tokens = Some(1)

\* C23: the generated_token_count of every delta of a GenerateStream call
\* is the token count of its snapshot: it never decreases from one delta
\* to the next, the last one is the token count of the last snapshot, and
\* with token details requested it is the number of details emitted up to
\* and including that delta
C23_CumulativeTokenCount ==
  IsStream
    => /\ \A j \in 3 .. Len(emitted) :
            emitted[j].generated_token_count
              >= emitted[j - 1].generated_token_count
       /\ Len(emitted) >= 2 =>
            Last(emitted).generated_token_count
              = Len(LastOutput(1).token_ids)
       /\ request.params.response.generated_tokens =>
            \A j \in 2 .. Len(emitted) :
              emitted[j].generated_token_count
                = Len(ConcatTokens(SubSeq(emitted, 2, j)))

\* a second delta of one token that reports a count of three
C23_Witness ==
  /\ IsStream /\ request.params.response.generated_tokens
  /\ Len(emitted) = 3
  /\ Len(emitted[2].tokens) = 2
  /\ Len(emitted[3].tokens) = 1
  /\ emitted[3].generated_token_count = 3

----------------------------------------------------------------------------
(* Calls with a deadline under fair scheduling: the event loop resumes a   *)
(* handler that can take a step, the engine delivers the next snapshot of  *)
(* a stream that has one, and time moves on.                               *)

\* the calls of Init that set a time limit and ask for no details (the
\* response options play no part in the loops); the prompts of a batch
\* leave one or two tokens of the window
InitLive ==
  /\ Init
  /\ request.params.stopping.time_limit_millis > 0
  /\ request.params.response = Plain
  /\ rpc = "Generate" =>
       \A i \in 1 .. request_count :
         request.requests[i] \in {PromptOf(max_model_len - 2),
                                  PromptOf(max_model_len - 1)}

Fairness ==
  /\ WF_vars(Tick)
  /\ WF_vars(ValidateParams)
  /\ WF_vars(PreparePrompt)
  /\ WF_vars(StreamStep)
  /\ WF_vars(StreamEnd)
  /\ WF_vars(\E i \in 1 .. request_count : BatchStep(i))
  /\ WF_vars(BatchReply)

SpecLive == InitLive /\ [][Next]_vars /\ Fairness

\* a snapshot is delivered in this step
SnapshotArrives == pc = "generate" /\ generators' # generators

----------------------------------------------------------------------------
(* Parameter validation alone: _validate_and_convert_params is applied     *)
(* once to each parameter set of ParamsInputs.                             *)

\* what the coroutine gives its caller: the abort status of context.abort
\* or the returned (sampling_params, deadline)
_validate_and_convert_params(params, now) ==
  IF ParamsError(params)
  THEN [abort |-> Some("INVALID_ARGUMENT"), value |-> None]
  ELSE [abort |-> None,
        value |-> Some(<<SamplingParams(params), Deadline(params, now)>>)]

\* n copies of one stop sequence
Repeat(s, n) == [k \in 1 .. n |-> s]

StopLists ==
  { Repeat("s240", n) : n \in 0 .. MAX_STOP_SEQS + 1 }
  \cup { <<"x">>, Repeat("x", MAX_STOP_SEQS + 1) }
  \cup { [Repeat("s240", n) EXCEPT ![p] = bad] :
           n \in {1, MAX_STOP_SEQS}, p \in {1}, bad \in {"", "s241"} }
  \cup { [Repeat("x", MAX_STOP_SEQS) EXCEPT ![MAX_STOP_SEQS] = bad] :
           bad \in {"", "s241"} }

ResponseOptions ==
  { [Plain EXCEPT !.token_logprobs = lp, !.token_ranks = rk,
                  !.top_n_tokens = n, !.input_tokens = it] :
      lp \in BOOLEAN, rk \in BOOLEAN, n \in 0 .. MAX_TOP_N_TOKENS + 1,
      it \in BOOLEAN }

Temperatures == {0, 5, 10, 15}

ParamsInputs ==
  { [MkParams(m, 0, 0, 0, ss, r) EXCEPT !.sampling.temperature = t] :
      m \in {"GREEDY", "SAMPLE"}, ss \in StopLists, r \in ResponseOptions,
      t \in Temperatures }

InitParams ==
  /\ NoHandler
  /\ call \in ParamsInputs
  /\ returned = None

ConvertParams ==
  /\ IsNone(returned)
  /\ returned' = Some(_validate_and_convert_params(call, clock))
  /\ UNCHANGED <<HandlerVars, call>>

NextParams == ConvertParams

SpecParams == InitParams /\ [][NextParams]_vars

\* the outcome of the validation and the configuration it returned
Outcome == Val(returned)

Converted == Val(Outcome.value)[1]

Accepted == Outcome.abort = None /\ Outcome.value # None

Rejected == Outcome.abort = Some("INVALID_ARGUMENT") /\ Outcome.value = None

\* C11: with nothing else wrong in the parameters, a stop-sequence list is
\* accepted exactly when it has at most 6 entries, each of length 1 to 240;
\* an accepted list (the empty one included) is handed to the
\* configuration, a rejected one gives the invalid-argument failure and no
\* configuration
C11_StopSequenceBounds ==
  (~IsNone(returned) /\ call.response.top_n_tokens <= 10)
    => LET ss == call.stopping.stop_sequences
           ok == /\ Len(ss) <= 6
                 /\ \A k \in 1 .. Len(ss) :
                      1 <= StrLen(ss[k]) /\ StrLen(ss[k]) <= 240
       IN /\ ok <=> Accepted
          /\ ~ok <=> Rejected
          /\ ok => Converted.stop = (IF ss = << >> THEN None ELSE Some(ss))
          /\ Len(ss) = 7 => Rejected
          /\ (\E k \in 1 .. Len(ss) : StrLen(ss[k]) \in {0, 241}) => Rejected
          /\ ss = << >> => Accepted

\* six stop sequences of length 240 each are accepted
C11_Witness ==
  /\ ~IsNone(returned)
  /\ call.stopping.stop_sequences = Repeat("s240", 6)
  /\ Accepted
  /\ Converted.stop = Some(Repeat("s240", 6))

\* C12: for token_logprobs, token_ranks, greedy and top_n_tokens in 0..10
\* the logprob count of the configuration is b + top_n - d, with b = 1 when
\* logprobs or ranks are requested and d = 1 when top_n > 0, the method is
\* greedy and logprobs are requested; a count of 0 is passed as None; more
\* than 10 alternatives are rejected with invalid-argument
C12_LogprobCount ==
  LET ss == call.stopping.stop_sequences
      listOk == /\ Len(ss) <= MAX_STOP_SEQS
                /\ \A k \in 1 .. Len(ss) : StrLen(ss[k]) \in 1 .. 240
      ro == call.response
      top_n == ro.top_n_tokens
      b == IF ro.token_logprobs \/ ro.token_ranks THEN 1 ELSE 0
      d == IF top_n > 0 /\ call.method = "GREEDY" /\ ro.token_logprobs
           THEN 1 ELSE 0
      count == b + top_n - d
  IN ~IsNone(returned)
       => /\ top_n > 10 => Rejected
          /\ (top_n \in 0 .. 10 /\ listOk)
               => /\ Accepted
                  /\ Converted.logprobs
                       = (IF count = 0 THEN None ELSE Some(count))

\* greedy decoding with logprobs and three alternatives asks for three
C12_Witness ==
  /\ ~IsNone(returned)
  /\ Accepted
  /\ call.method = "GREEDY"
  /\ call.response.token_logprobs
  /\ call.response.top_n_tokens = 3
  /\ Converted.logprobs = Some(3)

\* C14: an accepted parameter set has temperature 0.0 under greedy
\* decoding whatever was supplied, and under sampling the supplied
\* temperature, or 1.0 when none (zero) was supplied
C14_Temperature ==
  (~IsNone(returned) /\ Accepted)
    => LET supplied == call.sampling.temperature IN
       Converted.temperature
         = (IF call.method = "GREEDY" THEN 0
            ELSE IF supplied = 0 THEN 10 ELSE supplied)

\* greedy decoding of a request that supplies temperature 1.5
C14_Witness ==
  /\ ~IsNone(returned)
  /\ Accepted
  /\ call.method = "GREEDY"
  /\ call.sampling.temperature = 15
  /\ Converted.temperature = 0

----------------------------------------------------------------------------
(* Token details alone: a request is validated and, when accepted,         *)
(* _convert_tokens is applied with its response options to one list of     *)
(* token ids and logprob maps.  A map is the sequence of its entries in    *)
(* insertion order.                                                        *)

MapLogprobs == {0 - 1, 0 - 2}

\* the maps of one to three distinct tokens that hold the token tid
MapsWith(tid) ==
  { m \in UNION { [1 .. n -> [tid : Vocab, logprob : MapLogprobs,
                              rank : {1}]] : n \in 1 .. 3 } :
      /\ \A a, b \in DOMAIN m : a # b => m[a].tid # m[b].tid
      /\ \E a \in DOMAIN m : m[a].tid = tid }

\* the map list of generated tokens, and that of a prompt, whose first
\* entry is None
TokenLists ==
  { [token_ids |-> <<tid>>, logprobs_list |-> Some(<<Some(m)>>)] :
      tid \in Vocab, m \in UNION { MapsWith(t) : t \in Vocab } }
  \cup { [token_ids |-> <<1, tid>>, logprobs_list |-> Some(<<None, Some(m)>>)] :
           tid \in Vocab, m \in UNION { MapsWith(t) : t \in Vocab } }

TopNChoices == {0, 1, 2, 3, MAX_TOP_N_TOKENS, MAX_TOP_N_TOKENS + 1}

TokenInputs ==
  { [params |-> MkParams("SAMPLE", 0, 0, 0, << >>,
                         [Plain EXCEPT !.token_logprobs = lp,
                                       !.token_ranks = rk,
                                       !.top_n_tokens = n]),
     token_ids |-> tl.token_ids,
     logprobs_list |-> IF lp \/ rk \/ n # 0 THEN tl.logprobs_list ELSE None] :
      lp \in BOOLEAN, rk \in BOOLEAN, n \in TopNChoices,
      tl \in { t \in TokenLists :
                 \E a \in DOMAIN Val(Last(Val(t.logprobs_list))) :
                   Val(Last(Val(t.logprobs_list)))[a].tid
                     = Last(t.token_ids) } }

InitTokens ==
  /\ NoHandler
  /\ call \in TokenInputs
  /\ returned = None

ConvertTokens ==
  /\ IsNone(returned)
  /\ returned' =
       Some(IF ParamsError(call.params)
            THEN [abort |-> Some("INVALID_ARGUMENT"), tokens |-> << >>]
            ELSE [abort |-> None,
                  tokens |-> _convert_tokens(
                               call.token_ids, call.logprobs_list,
                               call.params.response.token_logprobs,
                               call.params.response.token_ranks,
                               call.params.response.top_n_tokens, 0)])
  /\ UNCHANGED <<HandlerVars, call>>

NextTokens == ConvertTokens

SpecTokens == InitTokens /\ [][NextTokens]_vars

\* entry a of map m comes before entry b: greater logprob, or the same
\* logprob and inserted earlier
Before(m, a, b) ==
  \/ m[a].logprob > m[b].logprob
  \/ m[a].logprob = m[b].logprob /\ a < b

\* the entry of m that k - 1 other entries come before
EntryAt(m, k) ==
  m[CHOOSE a \in DOMAIN m :
      Cardinality({b \in DOMAIN m : Before(m, b, a)}) = k - 1]

\* C13: at every position with a present map and top-N requested the
\* alternatives are the first min(N, map size) entries of the map by
\* descending logprob, equal logprobs in insertion order; they are never
\* more than N, and N is at most 10 once the request is accepted; a
\* position with no map has no logprob, no rank and no alternatives
C13_TopTokens ==
  ~IsNone(returned)
    => LET ro == call.params.response
           N == ro.top_n_tokens
           tokens == Val(returned).tokens
       IN /\ Val(returned).abort = None <=> N <= 10
          /\ Val(returned).abort = None =>
               /\ Len(tokens) = Len(call.token_ids)
               /\ \A i \in 1 .. Len(tokens) :
                    LET lp == IF IsNone(call.logprobs_list) THEN None
                              ELSE Val(call.logprobs_list)[i]
                        top == tokens[i].top_tokens
                    IN /\ Len(top) <= N
                       /\ IsNone(lp) =>
                            /\ tokens[i].logprob = None
                            /\ tokens[i].rank = None
                            /\ top = << >>
                       /\ (~IsNone(lp) /\ N > 0) =>
                            /\ Len(top) = Min(N, Len(Val(lp)))
                            /\ \A k \in 1 .. Len(top) :
                                 LET e == EntryAt(Val(lp), k) IN
                                 /\ top[k].text = TokText(e.tid)
                                 /\ top[k].logprob
                                      = (IF ro.token_logprobs
                                         THEN Some(e.logprob) ELSE None)

\* two alternatives out of a map of three entries whose first entry has
\* the lowest logprob and whose other two are tied; the prompt's first
\* position carries nothing
C13_Witness ==
  /\ ~IsNone(returned)
  /\ call.params.response.top_n_tokens = 2
  /\ call.params.response.token_logprobs
  /\ call.token_ids = <<1, 2>>
  /\ Val(call.logprobs_list)[1] = None
  /\ Val(call.logprobs_list)[2]
       = Some(<<[tid |-> 2, logprob |-> 0 - 2, rank |-> 1],
                [tid |-> 3, logprob |-> 0 - 1, rank |-> 1],
                [tid |-> 1, logprob |-> 0 - 1, rank |-> 1]>>)
  /\ Val(returned).tokens[1].top_tokens = << >>
  /\ Val(returned).tokens[2].top_tokens
       = <<[text |-> TokText(3), logprob |-> Some(0 - 1)],
           [text |-> TokText(1), logprob |-> Some(0 - 1)]>>

----------------------------------------------------------------------------
(* log_rpc_handler_errors and _handle_exception: a decorated handler       *)
(* raises e, after a streaming handler has yielded some responses.  An     *)
(* exception is its class (module and __name__), the status code of an     *)
(* AbortError, and its message.                                            *)

AbortErrorClass == [module |-> "grpc._cython.cygrpc", name |-> "AbortError"]

OutOfMemoryErrorClass == [module |-> "torch.cuda", name |-> "OutOfMemoryError"]

OtherClasses ==
  { [module |-> "builtins", name |-> n] :
      n \in {"RuntimeError", "ValueError", "KeyError"} }
  \cup { [module |-> "vllm.engine.async_llm_engine",
          name |-> "AsyncEngineDeadError"] }

\* type(e).__name__: the name of the class, without its module
TypeName(e) == e.class.name

\* isinstance(e, AbortError)
IsAbortError(e) == e.class = AbortErrorClass

\* the AbortError that context.abort(code, details) raises
ContextAbort(code, details) ==
  [class |-> AbortErrorClass, code |-> Some(code), message |-> details]

\* what _handle_exception logs and the exception that leaves it
_handle_exception(e, func) ==
  IF ~IsAbortError(e)
  THEN IF TypeName(e) = "torch.cuda.OutOfMemoryError"
       THEN [ logged |-> <<[func |-> func, text |-> "caused GPU OOM error"]>>,
              raised |-> ContextAbort("RESOURCE_EXHAUSTED", e.message) ]
       ELSE [ logged |-> <<[func |-> func, text |-> "failed"]>>,
              raised |-> e ]
  ELSE [ logged |-> << >>, raised |-> e ]

Messages == {"m1", "m2"}

Exceptions ==
  { ContextAbort("INVALID_ARGUMENT", m) : m \in Messages }
  \cup { [class |-> c, code |-> None, message |-> m] :
           c \in {OutOfMemoryErrorClass} \cup OtherClasses, m \in Messages }

\* the decorated handlers; only GenerateStream is an async generator
Failures ==
  { [func |-> f, yielded |-> 0, e |-> e] :
      f \in {"Generate", "Tokenize", "ModelInfo"}, e \in Exceptions }
  \cup { [func |-> "GenerateStream", yielded |-> n, e |-> e] :
           n \in 0 .. 2, e \in Exceptions }

InitFailure ==
  /\ NoHandler
  /\ call \in Failures
  /\ returned = None

\* func_with_log: the except clause of either wrapper
HandleFailure ==
  /\ IsNone(returned)
  /\ returned' = Some(_handle_exception(call.e, call.func))
  /\ UNCHANGED <<HandlerVars, call>>

NextFailure == HandleFailure

SpecFailure == InitFailure /\ [][NextFailure]_vars

\* an AbortError leaves unchanged and unlogged; a failure that is neither
\* an AbortError nor the engine's out-of-memory error is logged once and
\* leaves unchanged
AbortAndOtherFailures ==
  ~IsNone(returned)
    => LET e == call.e IN
       /\ IsAbortError(e) =>
            Val(returned).raised = e /\ Val(returned).logged = << >>
       /\ e.class \in OtherClasses =>
            /\ Val(returned).raised = e
            /\ Val(returned).logged
                 = <<[func |-> call.func, text |-> "failed"]>>

\* C15: a handler that fails with the engine's out-of-memory error is
\* aborted with RESOURCE_EXHAUSTED; an AbortError propagates unchanged and
\* nothing is logged; any other failure is logged once and propagates
C15_FailureHandling ==
  ~IsNone(returned)
    => LET e == call.e
           raised == Val(returned).raised
           logged == Val(returned).logged
       IN /\ e.class = OutOfMemoryErrorClass =>
               /\ IsAbortError(raised)
               /\ raised.code = Some("RESOURCE_EXHAUSTED")
          /\ IsAbortError(e) => raised = e /\ logged = << >>
          /\ (~IsAbortError(e) /\ e.class # OutOfMemoryErrorClass) =>
               Len(logged) = 1 /\ raised = e

====
